---- MODULE Spec2Model ----
(***************************************************************************)
(* The Notion webhook pipeline of SoberBookings:                           *)
(*   backend/src/webhooks/notion.py  validate_signature,                   *)
(*                                   process_notion_webhook                *)
(*   backend/src/utils/logger.py     StructuredLogger (the log sink)       *)
(*                                                                         *)
(* Python values are modelled structurally.  A str is the sequence of its  *)
(* code points, a bytes object the sequence of its bytes (0..255).  The    *)
(* library calls the handler makes (str.encode, json.dumps, hmac.new,      *)
(* hexdigest, hmac.compare_digest) are computed as the library computes    *)
(* them, SHA-256 included, so that equality of two signatures is decided   *)
(* by the digests themselves.                                              *)
(***************************************************************************)
EXTENDS Integers, Sequences, FiniteSets, TLC

VARIABLES
    environ,   \* os.environ.get('NOTION_WEBHOOK_SECRET'): a str, or None
    log,       \* the records the shared logger has emitted for the calls in view
    pc,        \* per thread: the statement of process_notion_webhook it is at
    frame,     \* per thread: the arguments and locals of its call
    outcome,   \* per thread: how its call ended (a return value or an exception)
    prev,      \* per thread: the outcome of the preceding call with the same arguments
    origin,    \* per thread: the raw body and secret of the sender, for a delivered request
    vcall      \* a direct call of validate_signature: its arguments and its result

vars == <<environ, log, pc, frame, outcome, prev, origin, vcall>>

(***************************************************************************)
(* SHA-256 (FIPS 180-4) and HMAC (RFC 2104), as hashlib and hmac compute   *)
(* them.  A 32-bit word is the pair <<high 16 bits, low 16 bits>>.         *)
(***************************************************************************)
Pow2 == <<1, 2, 4, 8, 16, 32, 64, 128, 256, 512, 1024, 2048, 4096, 8192, 16384, 32768, 65536>>

P2(n) == Pow2[n + 1]

\* The SHA-256 round constants.
K256 == <<
   <<17034, 12184>>, <<28983, 17553>>, <<46528, 64463>>, <<59829, 56229>>,
   <<14678, 49755>>, <<23025, 4593>>, <<37439, 33444>>, <<43804, 24277>>,
   <<55303, 43672>>, <<4739, 23297>>, <<9265, 34238>>, <<21772, 32195>>,
   <<29374, 23924>>, <<32990, 45566>>, <<39900, 1703>>, <<49563, 61812>>,
   <<58523, 27073>>, <<61374, 18310>>, <<4033, 40390>>, <<9228, 41420>>,
   <<11753, 11375>>, <<19060, 33962>>, <<23728, 43484>>, <<30457, 35034>>,
   <<38974, 20818>>, <<43057, 50797>>, <<45059, 10184>>, <<48985, 32711>>,
   <<50912, 3059>>, <<54695, 37191>>, <<1738, 25425>>, <<5161, 10599>>,
   <<10167, 2693>>, <<11803, 8504>>, <<19756, 28156>>, <<21304, 3347>>,
   <<25866, 29524>>, <<30314, 2747>>, <<33218, 51502>>, <<37490, 11397>>,
   <<41663, 59553>>, <<43034, 26187>>, <<49739, 35696>>, <<51052, 20899>>,
   <<53650, 59417>>, <<54937, 1572>>, <<62478, 13701>>, <<4202, 41072>>,
   <<6564, 49430>>, <<7735, 27656>>, <<10056, 30540>>, <<13488, 48309>>,
   <<14620, 3251>>, <<20184, 43594>>, <<23452, 51791>>, <<26670, 28659>>,
   <<29839, 33518>>, <<30885, 25455>>, <<33992, 30740>>, <<36039, 520>>,
   <<37054, 65530>>, <<42064, 27883>>, <<48889, 41975>>, <<50801, 30962>> >>

\* The SHA-256 initial hash value.
H256 == <<
   <<27145, 58983>>, <<47975, 44677>>, <<15470, 62322>>, <<42319, 62778>>,
   <<20750, 21119>>, <<39685, 26764>>, <<8067, 55723>>, <<23520, 52505>> >>

Bit(n, i) == (n \div P2(i)) % 2

\* A bitwise function of three 4-bit values, tabulated (index = value + 1).
Nibble3(f(_, _, _)) ==
    [a \in 1..16 |-> [b \in 1..16 |-> [c \in 1..16 |->
          f(Bit(a - 1, 0), Bit(b - 1, 0), Bit(c - 1, 0))
        + 2 * f(Bit(a - 1, 1), Bit(b - 1, 1), Bit(c - 1, 1))
        + 4 * f(Bit(a - 1, 2), Bit(b - 1, 2), Bit(c - 1, 2))
        + 8 * f(Bit(a - 1, 3), Bit(b - 1, 3), Bit(c - 1, 3))] \o <<>>] \o <<>>] \o <<>>

\* x xor y xor z
XorTable == Nibble3(LAMBDA p, q, r : (p + q + r) % 2)

\* Ch(x, y, z) = (x and y) xor (not x and z)
ChTable == Nibble3(LAMBDA p, q, r : IF p = 1 THEN q ELSE r)

\* Maj(x, y, z) = (x and y) xor (x and z) xor (y and z)
MajTable == Nibble3(LAMBDA p, q, r : IF p + q + r >= 2 THEN 1 ELSE 0)

\* The bitwise function tabulated in T, on three 16-bit values.
Half3(T, p, q, r) ==
      4096 * T[(p \div 4096) + 1][(q \div 4096) + 1][(r \div 4096) + 1]
    + 256 * T[((p \div 256) % 16) + 1][((q \div 256) % 16) + 1][((r \div 256) % 16) + 1]
    + 16 * T[((p \div 16) % 16) + 1][((q \div 16) % 16) + 1][((r \div 16) % 16) + 1]
    + T[(p % 16) + 1][(q % 16) + 1][(r % 16) + 1]

Word3(T, a, b, c) == <<Half3(T, a[1], b[1], c[1]), Half3(T, a[2], b[2], c[2])>>

Rotr(w, n) ==
    IF n >= 16
    THEN <<(w[2] \div P2(n - 16)) + (w[1] % P2(n - 16)) * P2(32 - n),
           (w[1] \div P2(n - 16)) + (w[2] % P2(n - 16)) * P2(32 - n)>>
    ELSE <<(w[1] \div P2(n)) + (w[2] % P2(n)) * P2(16 - n),
           (w[2] \div P2(n)) + (w[1] % P2(n)) * P2(16 - n)>>

Shr(w, n) == <<w[1] \div P2(n), (w[2] \div P2(n)) + (w[1] % P2(n)) * P2(16 - n)>>

BigSigma0(w) == Word3(XorTable, Rotr(w, 2), Rotr(w, 13), Rotr(w, 22))

BigSigma1(w) == Word3(XorTable, Rotr(w, 6), Rotr(w, 11), Rotr(w, 25))

SmallSigma0(w) == Word3(XorTable, Rotr(w, 7), Rotr(w, 18), Shr(w, 3))

SmallSigma1(w) == Word3(XorTable, Rotr(w, 17), Rotr(w, 19), Shr(w, 10))

RECURSIVE SumHalf(_, _)
SumHalf(ws, h) == IF ws = <<>> THEN 0 ELSE Head(ws)[h] + SumHalf(Tail(ws), h)

\* The word with high half hi and low half lo, the carry of lo moved up.
Carry(hi, lo) == <<(hi + (lo \div 65536)) % 65536, lo % 65536>>

\* The sum of the words ws modulo 2^32.
Add(ws) == Carry(SumHalf(ws, 1), SumHalf(ws, 2))

RECURSIVE Schedule(_)
Schedule(W) ==
    IF Len(W) = 64 THEN W
    ELSE LET t == Len(W) + 1
         IN  Schedule(Append(W, Add(<<SmallSigma1(W[t - 2]), W[t - 7],
                                      SmallSigma0(W[t - 15]), W[t - 16]>>)))

\* The working variables a..h after a round with temporaries T1 and T2.
Rotate(s, T1, T2) ==
    <<Add(<<T1, T2>>), s[1], s[2], s[3], Add(<<s[4], T1>>), s[5], s[6], s[7]>>

\* Round t on the working variables s, with schedule word w.
Round(s, t, w) ==
    Rotate(s, Add(<<s[8], BigSigma1(s[5]), Word3(ChTable, s[5], s[6], s[7]), K256[t], w>>),
              Add(<<BigSigma0(s[1]), Word3(MajTable, s[1], s[2], s[3])>>))

RECURSIVE Rounds(_, _)
Rounds(r, W) ==
    IF r.t > 64 THEN r.s
    ELSE Rounds([t |-> r.t + 1, s |-> Round(r.s, r.t, W[r.t])], W)

\* One 64-byte block folded into the hash value h.
Feed(h, s) == [t \in 1..8 |-> Add(<<h[t], s[t]>>)] \o <<>>

Compress(h, block) ==
    Feed(h, Rounds([t |-> 1, s |-> h],
                   Schedule([t \in 1..16 |->
                       <<block[4 * t - 3] * 256 + block[4 * t - 2],
                         block[4 * t - 1] * 256 + block[4 * t]>>] \o <<>>)))

Zeros(n) == [i \in 1..n |-> 0] \o <<>>

\* The message, the 1 bit, zeros, and the length in bits as a 64-bit number.
Pad(msg) ==
    msg \o <<128>> \o Zeros((55 - Len(msg)) % 64)
        \o <<0, 0, 0, 0, 0, ((Len(msg) * 8) \div 65536) % 256,
              ((Len(msg) * 8) \div 256) % 256, (Len(msg) * 8) % 256>>

RECURSIVE Blocks(_, _)
Blocks(h, m) ==
    IF m = <<>> THEN h
    ELSE Blocks(Compress(h, SubSeq(m, 1, 64)), SubSeq(m, 65, Len(m)))

WordBytes(w) == <<w[1] \div 256, w[1] % 256, w[2] \div 256, w[2] % 256>>

\* The bytes of the hash value h, big-endian.
HashBytes(h) ==
    WordBytes(h[1]) \o WordBytes(h[2]) \o WordBytes(h[3]) \o WordBytes(h[4])
    \o WordBytes(h[5]) \o WordBytes(h[6]) \o WordBytes(h[7]) \o WordBytes(h[8])

\* hashlib.sha256(msg).digest()
Sha256(msg) == HashBytes(Blocks(H256, Pad(msg)))

XorByte(a, b) ==
      16 * XorTable[(a \div 16) + 1][(b \div 16) + 1][1]
    + XorTable[(a % 16) + 1][(b % 16) + 1][1]

\* The key HMAC works with: hashed when longer than a block, then padded
\* with zero bytes to the block size of SHA-256, 64 bytes.
ZeroPad(k) == k \o Zeros(64 - Len(k))

HmacKey(key) == ZeroPad(IF Len(key) > 64 THEN Sha256(key) ELSE key)

\* The block key k with every byte xor-ed with pad.
XorPad(k, pad) == [i \in 1..64 |-> XorByte(k[i], pad)] \o <<>>

\* The outer hash over the inner hash, on the block key k.
HmacBlocks(k, msg) == Sha256(XorPad(k, 92) \o Sha256(XorPad(k, 54) \o msg))

\* hmac.new(key, msg, hashlib.sha256).digest()
HmacSha256(key, msg) == HmacBlocks(HmacKey(key), msg)

\* The code points of "0123456789abcdef".
HexDigits == <<48, 49, 50, 51, 52, 53, 54, 55, 56, 57, 97, 98, 99, 100, 101, 102>>

RECURSIVE Hex(_)
\* .hexdigest(): two lower-case hexadecimal digits per byte.
Hex(bytes) ==
    IF bytes = <<>> THEN <<>>
    ELSE <<HexDigits[(Head(bytes) \div 16) + 1], HexDigits[(Head(bytes) % 16) + 1]>>
         \o Hex(Tail(bytes))

(***************************************************************************)
(* Python values.  A dict keeps its items in insertion order, as CPython   *)
(* does; its keys are strs.  Object stands for a value the json module     *)
(* cannot serialise (a set, a datetime, bytes, ...), which the annotation  *)
(* Dict[str, Any] of the payload admits.                                   *)
(***************************************************************************)
PyNone == [t |-> "None"]

PyStr(s) == [t |-> "str", s |-> s]

PyInt(n) == [t |-> "int", n |-> n]

PyBool(b) == [t |-> "bool", b |-> b]

PyList(xs) == [t |-> "list", xs |-> xs]

PyDict(kv) == [t |-> "dict", kv |-> kv]

PyObject == [t |-> "object"]

\* How an evaluation ends: with a value, or with an exception raised.
Returned(v) == [raised |-> FALSE, value |-> v]

Raised(e) == [raised |-> TRUE, exc |-> e]

\* Code points the encoders and the parser name.
C == [quote |-> 34, backslash |-> 92, slash |-> 47, comma |-> 44, colon |-> 58,
      space |-> 32, minus |-> 45, zero |-> 48, nine |-> 57,
      lbrace |-> 123, rbrace |-> 125, lbracket |-> 91, rbracket |-> 93,
      b |-> 98, f |-> 102, n |-> 110, r |-> 114, t |-> 116, u |-> 117]

RECURSIVE Decimal(_)
\* The decimal digits of a natural number.
Decimal(n) == IF n < 10 THEN <<C.zero + n>> ELSE Decimal(n \div 10) \o <<C.zero + (n % 10)>>

\* str(n) of an int.
IntStr(n) == IF n < 0 THEN <<C.minus>> \o Decimal(0 - n) ELSE Decimal(n)

\* bool(x) of a str or bytes: empty is false.  `not x` is its negation.
Truthy(x) == x.t = "str" /\ x.s # <<>>

\* dict.get(key): the value, or None when the key is absent.  Any other
\* type of receiver has no attribute 'get'.
DictGet(d, key) ==
    IF d.t # "dict" THEN Raised("AttributeError")
    ELSE LET hits == {i \in 1..Len(d.kv) : d.kv[i][1] = key}
         IN  Returned(IF hits = {} THEN PyNone ELSE d.kv[CHOOSE i \in hits : TRUE][2])

(***************************************************************************)
(* str.encode('utf-8') and bytes.decode('utf-8').                          *)
(***************************************************************************)
IsSurrogate(c) == c >= 55296 /\ c <= 57343

Utf8Char(c) ==
    IF c < 128 THEN <<c>>
    ELSE IF c < 2048 THEN <<192 + (c \div 64), 128 + (c % 64)>>
    ELSE IF c < 65536 THEN <<224 + (c \div 4096), 128 + ((c \div 64) % 64), 128 + (c % 64)>>
    ELSE <<240 + (c \div 262144), 128 + ((c \div 4096) % 64), 128 + ((c \div 64) % 64), 128 + (c % 64)>>

RECURSIVE Utf8Bytes(_)
Utf8Bytes(s) == IF s = <<>> THEN <<>> ELSE Utf8Char(Head(s)) \o Utf8Bytes(Tail(s))

\* s.encode('utf-8'): a lone surrogate (os.environ yields them for bytes that
\* are not UTF-8, by surrogateescape) cannot be encoded.
Utf8Encode(s) ==
    IF \E i \in 1..Len(s) : IsSurrogate(s[i]) THEN Raised("UnicodeEncodeError")
    ELSE Returned(Utf8Bytes(s))

IsCont(b, i) == i <= Len(b) /\ b[i] >= 128 /\ b[i] < 192

RECURSIVE Utf8Points(_, _)
\* The code points of b from index i on; <<-1>> at the end marks bytes that
\* are not UTF-8.
Utf8Points(b, i) ==
    IF i > Len(b) THEN <<>>
    ELSE IF b[i] < 128 THEN <<b[i]>> \o Utf8Points(b, i + 1)
    ELSE IF b[i] >= 194 /\ b[i] < 224 /\ IsCont(b, i + 1)
         THEN <<(b[i] - 192) * 64 + (b[i + 1] - 128)>> \o Utf8Points(b, i + 2)
    ELSE IF b[i] >= 224 /\ b[i] < 240 /\ IsCont(b, i + 1) /\ IsCont(b, i + 2)
            /\ (b[i] - 224) * 4096 + (b[i + 1] - 128) * 64 >= 2048
            /\ ~IsSurrogate((b[i] - 224) * 4096 + (b[i + 1] - 128) * 64 + (b[i + 2] - 128))
         THEN <<(b[i] - 224) * 4096 + (b[i + 1] - 128) * 64 + (b[i + 2] - 128)>>
              \o Utf8Points(b, i + 3)
    ELSE IF b[i] >= 240 /\ b[i] < 245 /\ IsCont(b, i + 1) /\ IsCont(b, i + 2) /\ IsCont(b, i + 3)
            /\ (b[i] - 240) * 262144 + (b[i + 1] - 128) * 4096 >= 65536
            /\ (b[i] - 240) * 262144 + (b[i + 1] - 128) * 4096 < 1114112
         THEN <<(b[i] - 240) * 262144 + (b[i + 1] - 128) * 4096 + (b[i + 2] - 128) * 64
                + (b[i + 3] - 128)>> \o Utf8Points(b, i + 4)
    ELSE <<-1>>

Utf8Decode(b) ==
    LET s == Utf8Points(b, 1)
    IN  IF s # <<>> /\ s[Len(s)] = -1 THEN Raised("UnicodeDecodeError") ELSE Returned(s)

(***************************************************************************)
(* json.dumps(obj) with its defaults: ensure_ascii=True, separators        *)
(* (', ', ': '), keys in the dict's own order.                             *)
(***************************************************************************)
Hex4(n) == <<HexDigits[(n \div 4096) + 1], HexDigits[((n \div 256) % 16) + 1],
             HexDigits[((n \div 16) % 16) + 1], HexDigits[(n % 16) + 1]>>

\* json.encoder.py_encode_basestring_ascii: one character of a string.
EscapeChar(c) ==
    IF c = C.quote THEN <<C.backslash, C.quote>>
    ELSE IF c = C.backslash THEN <<C.backslash, C.backslash>>
    ELSE IF c >= 32 /\ c <= 126 THEN <<c>>
    ELSE IF c = 10 THEN <<C.backslash, C.n>>
    ELSE IF c = 13 THEN <<C.backslash, C.r>>
    ELSE IF c = 9 THEN <<C.backslash, C.t>>
    ELSE IF c = 12 THEN <<C.backslash, C.f>>
    ELSE IF c = 8 THEN <<C.backslash, C.b>>
    ELSE IF c < 65536 THEN <<C.backslash, C.u>> \o Hex4(c)
    ELSE <<C.backslash, C.u>> \o Hex4(55296 + (((c - 65536) \div 1024) % 1024))
         \o <<C.backslash, C.u>> \o Hex4(56320 + ((c - 65536) % 1024))

RECURSIVE EscapeChars(_)
EscapeChars(s) == IF s = <<>> THEN <<>> ELSE EscapeChar(Head(s)) \o EscapeChars(Tail(s))

EncodeString(s) == <<C.quote>> \o EscapeChars(s) \o <<C.quote>>

RECURSIVE JsonDumps(_), DumpItems(_, _), DumpMembers(_, _)
\* json.dumps(v): the text, or TypeError for a value that is not serialisable.
JsonDumps(v) ==
    CASE v.t = "None" -> Returned(<<C.n, C.u, 108, 108>>)
      [] v.t = "bool" -> Returned(IF v.b THEN <<C.t, C.r, C.u, 101>>
                                         ELSE <<C.f, 97, 108, 115, 101>>)
      [] v.t = "int"  -> Returned(IntStr(v.n))
      [] v.t = "str"  -> Returned(EncodeString(v.s))
      [] v.t = "list" -> LET r == DumpItems(v.xs, 1)
                         IN  IF r.raised THEN r
                             ELSE Returned(<<C.lbracket>> \o r.value \o <<C.rbracket>>)
      [] v.t = "dict" -> LET r == DumpMembers(v.kv, 1)
                         IN  IF r.raised THEN r
                             ELSE Returned(<<C.lbrace>> \o r.value \o <<C.rbrace>>)
      [] v.t = "object" -> Raised("TypeError")

DumpItems(xs, i) ==
    IF i > Len(xs) THEN Returned(<<>>)
    ELSE LET x    == JsonDumps(xs[i])
             rest == DumpItems(xs, i + 1)
         IN  IF x.raised THEN x
             ELSE IF rest.raised THEN rest
             ELSE Returned((IF i > 1 THEN <<C.comma, C.space>> ELSE <<>>) \o x.value \o rest.value)

DumpMembers(kv, i) ==
    IF i > Len(kv) THEN Returned(<<>>)
    ELSE LET x    == JsonDumps(kv[i][2])
             rest == DumpMembers(kv, i + 1)
         IN  IF x.raised THEN x
             ELSE IF rest.raised THEN rest
             ELSE Returned((IF i > 1 THEN <<C.comma, C.space>> ELSE <<>>)
                           \o EncodeString(kv[i][1]) \o <<C.colon, C.space>>
                           \o x.value \o rest.value)

(***************************************************************************)
(* json.loads(body), which the transport applies to the raw request body   *)
(* before it calls the handler: objects, arrays, strings, integers, true,  *)
(* false and null.  A body with a fraction or an exponent is outside what  *)
(* the parser below reads and is reported as not parsed.                   *)
(***************************************************************************)
Parsed(v, i) == [ok |-> TRUE, v |-> v, i |-> i]

NotParsed == [ok |-> FALSE]

IsWs(c) == c \in {32, 9, 10, 13}

IsDigit(c) == c >= C.zero /\ c <= C.nine

RECURSIVE SkipWs(_, _)
SkipWs(s, i) == IF i <= Len(s) /\ IsWs(s[i]) THEN SkipWs(s, i + 1) ELSE i

At(s, i, c) == i <= Len(s) /\ s[i] = c

HexVal(c) ==
    IF IsDigit(c) THEN c - C.zero
    ELSE IF c >= 97 /\ c <= 102 THEN c - 87
    ELSE IF c >= 65 /\ c <= 70 THEN c - 55
    ELSE -1

RECURSIVE ScanString(_, _, _)
\* The characters of a string from index i on, to its closing quote.
ScanString(s, i, acc) ==
    IF i > Len(s) \/ s[i] < 32 THEN NotParsed
    ELSE IF s[i] = C.quote THEN Parsed(acc, i + 1)
    ELSE IF s[i] # C.backslash THEN ScanString(s, i + 1, Append(acc, s[i]))
    ELSE IF i + 1 > Len(s) THEN NotParsed
    ELSE IF s[i + 1] \in {C.quote, C.backslash, C.slash}
         THEN ScanString(s, i + 2, Append(acc, s[i + 1]))
    ELSE IF s[i + 1] = C.n THEN ScanString(s, i + 2, Append(acc, 10))
    ELSE IF s[i + 1] = C.r THEN ScanString(s, i + 2, Append(acc, 13))
    ELSE IF s[i + 1] = C.t THEN ScanString(s, i + 2, Append(acc, 9))
    ELSE IF s[i + 1] = C.f THEN ScanString(s, i + 2, Append(acc, 12))
    ELSE IF s[i + 1] = C.b THEN ScanString(s, i + 2, Append(acc, 8))
    ELSE IF s[i + 1] = C.u /\ i + 5 <= Len(s)
            /\ \A k \in 2..5 : HexVal(s[i + k]) >= 0
            /\ ~IsSurrogate(HexVal(s[i + 2]) * 4096 + HexVal(s[i + 3]) * 256
                            + HexVal(s[i + 4]) * 16 + HexVal(s[i + 5]))
         THEN ScanString(s, i + 6,
                  Append(acc, HexVal(s[i + 2]) * 4096 + HexVal(s[i + 3]) * 256
                              + HexVal(s[i + 4]) * 16 + HexVal(s[i + 5])))
    ELSE NotParsed

RECURSIVE ScanDigits(_, _, _)
ScanDigits(s, i, n) ==
    IF i <= Len(s) /\ IsDigit(s[i]) THEN ScanDigits(s, i + 1, n * 10 + (s[i] - C.zero))
    ELSE Parsed(n, i)

\* An integer: an optional minus, then 0 or a digit string without leading 0.
ScanInt(s, i) ==
    LET neg == At(s, i, C.minus)
        j   == IF neg THEN i + 1 ELSE i
        d   == IF At(s, j, C.zero) THEN Parsed(0, j + 1) ELSE ScanDigits(s, j, 0)
    IN  IF j > Len(s) \/ ~IsDigit(s[j]) THEN NotParsed
        ELSE IF d.i <= Len(s) /\ s[d.i] \in {46, 69, 101} THEN NotParsed
        ELSE Parsed(PyInt(IF neg THEN 0 - d.v ELSE d.v), d.i)

Literal(s, i, word, v) ==
    IF i + Len(word) - 1 <= Len(s) /\ SubSeq(s, i, i + Len(word) - 1) = word
    THEN Parsed(v, i + Len(word)) ELSE NotParsed

\* d[key] = v on the items of a dict: a key already there keeps its place.
DictSet(kv, key, v) ==
    IF \E i \in 1..Len(kv) : kv[i][1] = key
    THEN [i \in 1..Len(kv) |-> IF kv[i][1] = key THEN <<key, v>> ELSE kv[i]] \o <<>>
    ELSE Append(kv, <<key, v>>)

RECURSIVE ParseValue(_, _), ParseElements(_, _, _), ParseMembers(_, _, _)
\* The value that starts at index i (no leading white space).
ParseValue(s, i) ==
    IF i > Len(s) THEN NotParsed
    ELSE IF s[i] = C.quote
         THEN LET r == ScanString(s, i + 1, <<>>)
              IN  IF r.ok THEN Parsed(PyStr(r.v), r.i) ELSE NotParsed
    ELSE IF s[i] = C.lbrace
         THEN LET j == SkipWs(s, i + 1)
              IN  IF At(s, j, C.rbrace) THEN Parsed(PyDict(<<>>), j + 1)
                  ELSE ParseMembers(s, j, <<>>)
    ELSE IF s[i] = C.lbracket
         THEN LET j == SkipWs(s, i + 1)
              IN  IF At(s, j, C.rbracket) THEN Parsed(PyList(<<>>), j + 1)
                  ELSE ParseElements(s, j, <<>>)
    ELSE IF s[i] = C.n THEN Literal(s, i, <<C.n, C.u, 108, 108>>, PyNone)
    ELSE IF s[i] = C.t THEN Literal(s, i, <<C.t, C.r, C.u, 101>>, PyBool(TRUE))
    ELSE IF s[i] = C.f THEN Literal(s, i, <<C.f, 97, 108, 115, 101>>, PyBool(FALSE))
    ELSE ScanInt(s, i)

\* The elements of an array from index i on, to its closing bracket.
ParseElements(s, i, acc) ==
    LET x == ParseValue(s, i)
        j == IF x.ok THEN SkipWs(s, x.i) ELSE 0
    IN  IF ~x.ok THEN NotParsed
        ELSE IF At(s, j, C.rbracket) THEN Parsed(PyList(Append(acc, x.v)), j + 1)
        ELSE IF At(s, j, C.comma) THEN ParseElements(s, SkipWs(s, j + 1), Append(acc, x.v))
        ELSE NotParsed

\* The members of an object from index i on, to its closing brace.
ParseMembers(s, i, acc) ==
    LET k == IF At(s, i, C.quote) THEN ScanString(s, i + 1, <<>>) ELSE NotParsed
        c == IF k.ok THEN SkipWs(s, k.i) ELSE 0
        x == IF k.ok /\ At(s, c, C.colon) THEN ParseValue(s, SkipWs(s, c + 1)) ELSE NotParsed
        j == IF x.ok THEN SkipWs(s, x.i) ELSE 0
    IN  IF ~x.ok THEN NotParsed
        ELSE IF At(s, j, C.rbrace) THEN Parsed(PyDict(DictSet(acc, k.v, x.v)), j + 1)
        ELSE IF At(s, j, C.comma)
             THEN ParseMembers(s, SkipWs(s, j + 1), DictSet(acc, k.v, x.v))
        ELSE NotParsed

\* json.loads(body) of the bytes of a request body.
JsonLoads(body) ==
    LET text == Utf8Decode(body)
        x    == IF text.raised THEN NotParsed
                ELSE ParseValue(text.value, SkipWs(text.value, 1))
    IN  IF text.raised THEN text
        ELSE IF x.ok /\ SkipWs(text.value, x.i) = Len(text.value) + 1 THEN Returned(x.v)
        ELSE Raised("JSONDecodeError")

(***************************************************************************)
(* The strs the two source files name, as code points.                     *)
(***************************************************************************)
\* "Notion-Signature"
NotionSignature == <<78, 111, 116, 105, 111, 110, 45, 83, 105, 103, 110, 97, 116, 117, 114, 101>>

\* "type"
KeyType == <<116, 121, 112, 101>>

\* "facility_id"
KeyFacilityId == <<102, 97, 99, 105, 108, 105, 116, 121, 95, 105, 100>>

\* "timestamp"
KeyTimestamp == <<116, 105, 109, 101, 115, 116, 97, 109, 112>>

\* "source"
KeySource == <<115, 111, 117, 114, 99, 101>>

\* "notion"
Notion == <<110, 111, 116, 105, 111, 110>>

\* "facility.updated"
FacilityUpdated == <<102, 97, 99, 105, 108, 105, 116, 121, 46, 117, 112, 100, 97, 116, 101, 100>>

\* "facility.verified"
FacilityVerified == <<102, 97, 99, 105, 108, 105, 116, 121, 46, 118, 101, 114, 105, 102, 105, 101, 100>>

\* "facility.deleted"
FacilityDeleted == <<102, 97, 99, 105, 108, 105, 116, 121, 46, 100, 101, 108, 101, 116, 101, 100>>

\* "Missing signature header"
MsgMissingSignature == <<77, 105, 115, 115, 105, 110, 103, 32, 115, 105, 103, 110, 97, 116, 117, 114, 101, 32, 104, 101, 97, 100, 101, 114>>

\* "Webhook secret not configured"
MsgSecretNotConfigured == <<87, 101, 98, 104, 111, 111, 107, 32, 115, 101, 99, 114, 101, 116, 32, 110, 111, 116, 32, 99, 111, 110, 102, 105, 103, 117, 114, 101, 100>>

\* "Invalid webhook signature"
MsgInvalidSignature == <<73, 110, 118, 97, 108, 105, 100, 32, 119, 101, 98, 104, 111, 111, 107, 32, 115, 105, 103, 110, 97, 116, 117, 114, 101>>

\* "Webhook signature validated"
MsgValidated == <<87, 101, 98, 104, 111, 111, 107, 32, 115, 105, 103, 110, 97, 116, 117, 114, 101, 32, 118, 97, 108, 105, 100, 97, 116, 101, 100>>

\* "Received "
MsgReceived == <<82, 101, 99, 101, 105, 118, 101, 100, 32>>

\* " event"
MsgEvent == <<32, 101, 118, 101, 110, 116>>

\* "Processing facility update"
MsgUpdate == <<80, 114, 111, 99, 101, 115, 115, 105, 110, 103, 32, 102, 97, 99, 105, 108, 105, 116, 121, 32, 117, 112, 100, 97, 116, 101>>

\* "Processing facility verification"
MsgVerification == <<80, 114, 111, 99, 101, 115, 115, 105, 110, 103, 32, 102, 97, 99, 105, 108, 105, 116, 121, 32, 118, 101, 114, 105, 102, 105, 99, 97, 116, 105, 111, 110>>

\* "Processing facility deletion"
MsgDeletion == <<80, 114, 111, 99, 101, 115, 115, 105, 110, 103, 32, 102, 97, 99, 105, 108, 105, 116, 121, 32, 100, 101, 108, 101, 116, 105, 111, 110>>

\* "Error processing webhook"
MsgError == <<69, 114, 114, 111, 114, 32, 112, 114, 111, 99, 101, 115, 115, 105, 110, 103, 32, 119, 101, 98, 104, 111, 111, 107>>

\* "status"
KeyStatus == <<115, 116, 97, 116, 117, 115>>

\* "message"
KeyMessage == <<109, 101, 115, 115, 97, 103, 101>>

\* "data"
KeyData == <<100, 97, 116, 97>>

\* "event_type"
KeyEventType == <<101, 118, 101, 110, 116, 95, 116, 121, 112, 101>>

\* "success"
Success == <<115, 117, 99, 99, 101, 115, 115>>

\* "Processed "
Processed == <<80, 114, 111, 99, 101, 115, 115, 101, 100, 32>>

\* " event for facility "
EventForFacility == <<32, 101, 118, 101, 110, 116, 32, 102, 111, 114, 32, 102, 97, 99, 105, 108, 105, 116, 121, 32>>

\* " | "
Separator == <<32, 124, 32>>

\* "None"
NoneText == <<78, 111, 110, 101>>

\* "True"
TrueText == <<84, 114, 117, 101>>

\* "False"
FalseText == <<70, 97, 108, 115, 101>>

(***************************************************************************)
(* utils/logger.py: StructuredLogger.  The shared logger appends to one    *)
(* stream; a record carries its level, its formatted message, whether a    *)
(* traceback goes with it, and the thread that logged it (LogRecord.thread)*)
(***************************************************************************)
\* StructuredLogger._format_log(message, **kwargs)
FormatLog(message, kwargs) ==
    IF kwargs = <<>> THEN Returned(message)
    ELSE LET ctx == JsonDumps(PyDict(kwargs))
         IN  IF ctx.raised THEN ctx ELSE Returned(message \o Separator \o ctx.value)

\* The stream after logger.info / logger.error: Raised when formatting fails.
LoggerCall(stream, t, level, message, kwargs, exc_info) ==
    LET text == FormatLog(message, kwargs)
    IN  IF text.raised THEN text
        ELSE Returned(Append(stream, [levelname |-> level, message |-> text.value,
                                      exc_info |-> exc_info, thread |-> t]))

LoggerInfo(stream, t, message, kwargs) == LoggerCall(stream, t, "INFO", message, kwargs, FALSE)

LoggerError(stream, t, message, exc_info) == LoggerCall(stream, t, "ERROR", message, <<>>, exc_info)

(***************************************************************************)
(* The requests, secrets and bodies the model is run on.                   *)
(***************************************************************************)
\* "s3cret"
SecretA == <<115, 51, 99, 114, 101, 116>>

\* "other"
SecretB == <<111, 116, 104, 101, 114>>

\* "s3cret\x00": SecretA and one NUL character
SecretNul == SecretA \o <<0>>

\* 65 times "b": longer than a block of SHA-256
SecretLong == [i \in 1..65 |-> 98] \o <<>>

\* "\udcff": what os.environ yields for the byte 0xff
SecretSurrogate == <<56575>>

\* "facility.archived", a type no handler knows
FacilityArchived == <<102, 97, 99, 105, 108, 105, 116, 121, 46, 97, 114, 99, 104, 105, 118, 101, 100>>

\* "42"
Id42 == <<52, 50>>

PayloadUpdated == PyDict(<< <<KeyType, PyStr(FacilityUpdated)>>, <<KeyFacilityId, PyStr(Id42)>> >>)

PayloadVerified ==
    PyDict(<< <<KeyType, PyStr(FacilityVerified)>>, <<KeyFacilityId, PyStr(<<55>>)>>,
              <<KeyTimestamp, PyInt(17)>> >>)

\* facility_id before type
PayloadDeleted == PyDict(<< <<KeyFacilityId, PyStr(Id42)>>, <<KeyType, PyStr(FacilityDeleted)>> >>)

PayloadArchived ==
    PyDict(<< <<KeyType, PyStr(FacilityArchived)>>, <<KeyFacilityId, PyStr(Id42)>> >>)

\* no key at all
PayloadEmpty == PyDict(<<>>)

PayloadNullType == PyDict(<< <<KeyType, PyNone>>, <<KeyFacilityId, PyInt(42)>> >>)

\* facility_id "é"
PayloadNonAscii ==
    PyDict(<< <<KeyType, PyStr(FacilityUpdated)>>, <<KeyFacilityId, PyStr(<<233>>)>> >>)

\* a JSON array: a body that parses, and is no mapping
PayloadList == PyList(<<PyInt(1)>>)

\* a value json.dumps cannot serialise
PayloadObject == PyDict(<< <<KeyType, PyStr(FacilityUpdated)>>, <<KeyFacilityId, PyObject>> >>)

Payloads ==
    {PayloadUpdated, PayloadVerified, PayloadDeleted, PayloadArchived, PayloadEmpty,
     PayloadNullType, PayloadNonAscii, PayloadList, PayloadObject}

\* json.dumps(payload).encode('utf-8'), for a payload that serialises.
DumpBytes(payload) == Utf8Bytes(JsonDumps(payload).value)

Serialisable == {p \in Payloads : ~JsonDumps(p).raised}

\* {"type": "facility.updated", "facility_id": "42"}
RawSpaced == DumpBytes(PayloadUpdated)

\* {"type":"facility.updated","facility_id":"42"}
RawCompact ==
    <<123, 34, 116, 121, 112, 101, 34, 58, 34, 102, 97, 99, 105, 108, 105, 116, 121, 46, 117,
    112, 100, 97, 116, 101, 100, 34, 44, 34, 102, 97, 99, 105, 108, 105, 116, 121, 95, 105,
    100, 34, 58, 34, 52, 50, 34, 125>>

\* {"facility_id": "42", "type": "facility.deleted"}
RawReordered == DumpBytes(PayloadDeleted)

\* {"type": "facility.updated", "facility_id": "é"}, the é as UTF-8
RawUtf8 ==
    <<123, 34, 116, 121, 112, 101, 34, 58, 32, 34, 102, 97, 99, 105, 108, 105, 116, 121, 46,
    117, 112, 100, 97, 116, 101, 100, 34, 44, 32, 34, 102, 97, 99, 105, 108, 105, 116, 121,
    95, 105, 100, 34, 58, 32, 34, 195, 169, 34, 125>>

RawBodies == {RawSpaced, RawCompact, RawReordered, RawUtf8}

SenderSecrets == {SecretA, SecretB}

\* The bodies validate_signature is called on directly: empty, "a", "aa", ...
MaxPayloadLen == 1

DirectPayloads == {[i \in 1..n |-> 97] \o <<>> : n \in 0..MaxPayloadLen}

DirectSecrets == {SecretA, SecretNul, SecretB, SecretLong}

\* Every (key, message) pair a run signs or verifies.
SignedInputs ==
    ({Utf8Bytes(s) : s \in SenderSecrets} \X ({DumpBytes(p) : p \in Serialisable} \cup RawBodies))
    \cup ({Utf8Bytes(s) : s \in DirectSecrets} \X DirectPayloads)

(***************************************************************************)
(* webhooks/notion.py: validate_signature.                                 *)
(***************************************************************************)
IsAscii(s) == \A i \in 1..Len(s) : s[i] < 128

\* A faulty comparison, which looks at the lengths only.
CompareLength(a, b) == Returned(Len(a) = Len(b))

\* hmac.compare_digest(a, b) of two strs: both must be ASCII.
compare_digest(a, b) ==
    IF ~IsAscii(a) \/ ~IsAscii(b) THEN Raised("TypeError") ELSE Returned(a = b)

\* hmac.new(key, payload, hashlib.sha256).hexdigest()
Digest(key, payload) == Hex(HmacSha256(key, payload))

\* The digests of SignedInputs, computed once.
DigestTable == {[key |-> p[1], payload |-> p[2], hex |-> Digest(p[1], p[2])] : p \in SignedInputs}

hexdigest(key, payload) ==
    IF <<key, payload>> \in SignedInputs
    THEN (CHOOSE d \in DigestTable : d.key = key /\ d.payload = payload).hex
    ELSE Digest(key, payload)

\* A faulty validator, without the guard on empty arguments.
ValidateUnguarded(payload, signature, secret) ==
    compare_digest(hexdigest(Utf8Bytes(secret.s), payload), signature.s)

\* validate_signature(payload: bytes, signature: str, secret: str) -> bool
validate_signature(payload, signature, secret) ==
    IF payload = <<>> \/ ~Truthy(signature) \/ ~Truthy(secret) THEN Returned(FALSE)
    ELSE LET key == Utf8Encode(secret.s)
         IN  IF key.raised THEN key
             ELSE compare_digest(hexdigest(key.value, payload), signature.s)

(***************************************************************************)
(* webhooks/notion.py: process_notion_webhook, statement by statement.     *)
(* Each thread of the server runs one call at a time.                      *)
(***************************************************************************)
Threads == {1, 2}

NoOutcome == [raised |-> FALSE, pending |-> TRUE]

NoOrigin == [delivered |-> FALSE]

\* The locals of a call that has just been entered.
Enter(payload, headers) ==
    [payload |-> payload, headers |-> headers, signature |-> PyNone,
     webhook_secret |-> PyNone, payload_bytes |-> <<>>,
     event_type |-> PyNone, facility_id |-> PyNone]

\* The stream without the records of thread t's earlier call.
Scroll(stream, t) == SelectSeq(stream, LAMBDA e : e.thread # t)

Finish(t, result) ==
    /\ outcome' = [outcome EXCEPT ![t] = result]
    /\ pc' = [pc EXCEPT ![t] = "done"]

Goto(t, label) ==
    /\ pc' = [pc EXCEPT ![t] = label]
    /\ UNCHANGED outcome

\* A call process_notion_webhook(payload, headers) is entered.
Receive(t, payload, headers) ==
    /\ pc[t] \in {"idle", "done"}
    /\ frame' = [frame EXCEPT ![t] = Enter(payload, headers)]
    /\ pc' = [pc EXCEPT ![t] = "get_signature"]
    /\ outcome' = [outcome EXCEPT ![t] = NoOutcome]
    /\ prev' = [prev EXCEPT ![t] = NoOutcome]
    /\ origin' = [origin EXCEPT ![t] = NoOrigin]
    /\ log' = Scroll(log, t)
    /\ UNCHANGED <<environ, vcall>>

\* The caller calls again with the payload and headers of the call that ended.
Repeat(t) ==
    /\ pc[t] = "done"
    /\ frame' = [frame EXCEPT ![t] = Enter(frame[t].payload, frame[t].headers)]
    /\ pc' = [pc EXCEPT ![t] = "get_signature"]
    /\ outcome' = [outcome EXCEPT ![t] = NoOutcome]
    /\ prev' = [prev EXCEPT ![t] = outcome[t]]
    /\ log' = Scroll(log, t)
    /\ UNCHANGED <<environ, origin, vcall>>

\* A faulty first step, which reads the header and does not test it.
GetSignatureUnchecked(t) ==
    /\ pc[t] = "get_signature"
    /\ frame' = [frame EXCEPT ![t].signature = DictGet(frame[t].headers, NotionSignature).value]
    /\ Goto(t, "get_secret")
    /\ UNCHANGED <<environ, log, prev, origin, vcall>>

\* signature = headers.get('Notion-Signature'); if not signature: ...
GetSignature(t) ==
    /\ pc[t] = "get_signature"
    /\ LET signature == DictGet(frame[t].headers, NotionSignature).value
       IN  IF ~Truthy(signature)
           THEN /\ log' = LoggerError(log, t, MsgMissingSignature, FALSE).value
                /\ Finish(t, Returned(PyNone))
                /\ UNCHANGED frame
           ELSE /\ frame' = [frame EXCEPT ![t].signature = signature]
                /\ Goto(t, "get_secret")
                /\ UNCHANGED log
    /\ UNCHANGED <<environ, prev, origin, vcall>>

\* A faulty second step, which takes the secret out of the environment.
GetSecretOnce(t) ==
    /\ pc[t] = "get_secret"
    /\ IF ~Truthy(environ)
       THEN /\ log' = LoggerError(log, t, MsgSecretNotConfigured, FALSE).value
            /\ Finish(t, Returned(PyNone))
            /\ UNCHANGED frame
       ELSE /\ frame' = [frame EXCEPT ![t].webhook_secret = environ]
            /\ Goto(t, "dumps")
            /\ UNCHANGED log
    /\ environ' = PyNone
    /\ UNCHANGED <<prev, origin, vcall>>

\* webhook_secret = os.environ.get('NOTION_WEBHOOK_SECRET'); if not webhook_secret: ...
GetSecret(t) ==
    /\ pc[t] = "get_secret"
    /\ IF ~Truthy(environ)
       THEN /\ log' = LoggerError(log, t, MsgSecretNotConfigured, FALSE).value
            /\ Finish(t, Returned(PyNone))
            /\ UNCHANGED frame
       ELSE /\ frame' = [frame EXCEPT ![t].webhook_secret = environ]
            /\ Goto(t, "dumps")
            /\ UNCHANGED log
    /\ UNCHANGED <<environ, prev, origin, vcall>>

\* payload_bytes = json.dumps(payload).encode('utf-8')
Serialize(t) ==
    /\ pc[t] = "dumps"
    /\ LET text  == JsonDumps(frame[t].payload)
           bytes == IF text.raised THEN text ELSE Utf8Encode(text.value)
       IN  IF bytes.raised
           THEN /\ Finish(t, bytes)
                /\ UNCHANGED frame
           ELSE /\ frame' = [frame EXCEPT ![t].payload_bytes = bytes.value]
                /\ Goto(t, "validate")
    /\ UNCHANGED <<environ, log, prev, origin, vcall>>

\* A faulty check, which goes on whatever validate_signature returns.
ValidateUnchecked(t) ==
    /\ pc[t] = "validate"
    /\ log' = LoggerInfo(log, t, MsgValidated, << <<KeySource, PyStr(Notion)>> >>).value
    /\ Goto(t, "try")
    /\ UNCHANGED <<environ, frame, prev, origin, vcall>>

\* if not validate_signature(payload_bytes, signature, webhook_secret): ...
\* logger.info("Webhook signature validated", source="notion")
Validate(t) ==
    /\ pc[t] = "validate"
    /\ LET valid == validate_signature(frame[t].payload_bytes, frame[t].signature,
                                       frame[t].webhook_secret)
       IN  IF valid.raised
           THEN /\ Finish(t, valid)
                /\ UNCHANGED log
           ELSE IF ~valid.value
           THEN /\ log' = LoggerError(log, t, MsgInvalidSignature, FALSE).value
                /\ Finish(t, Returned(PyNone))
           ELSE /\ log' = LoggerInfo(log, t, MsgValidated,
                                     << <<KeySource, PyStr(Notion)>> >>).value
                /\ Goto(t, "try")
    /\ UNCHANGED <<environ, frame, prev, origin, vcall>>

\* try: event_type = payload.get('type'); facility_id = payload.get('facility_id')
Extract(t) ==
    /\ pc[t] = "try"
    /\ LET event_type  == DictGet(frame[t].payload, KeyType)
           facility_id == DictGet(frame[t].payload, KeyFacilityId)
       IN  IF event_type.raised \/ facility_id.raised
           THEN /\ Goto(t, "except")
                /\ UNCHANGED frame
           ELSE /\ frame' = [frame EXCEPT ![t].event_type = event_type.value,
                                          ![t].facility_id = facility_id.value]
                /\ Goto(t, "dispatch")
    /\ UNCHANGED <<environ, log, prev, origin, vcall>>

\* str(v), as an f-string formats a replacement field: of a str, None, an int
\* or a bool, the values the type and facility_id of the payloads in view take
\* (the repr of a list or a dict is not modelled).
Format(v) ==
    CASE v.t = "str"  -> v.s
      [] v.t = "None" -> NoneText
      [] v.t = "int"  -> IntStr(v.n)
      [] v.t = "bool" -> IF v.b THEN TrueText ELSE FalseText

\* A faulty branch, which takes every event for an update.
AnyHandler(event_type) == MsgUpdate

\* The handler of an event type: the message it logs, <<>> when the type has none.
HandlerMessage(event_type) ==
    IF event_type = PyStr(FacilityUpdated) THEN MsgUpdate
    ELSE IF event_type = PyStr(FacilityVerified) THEN MsgVerification
    ELSE IF event_type = PyStr(FacilityDeleted) THEN MsgDeletion
    ELSE <<>>

\* A faulty response, which echoes no timestamp.
ResponseNoTimestamp(payload, event_type, facility_id) ==
    PyDict(<< <<KeyStatus, PyStr(Success)>>,
              <<KeyMessage, PyStr(Processed \o Format(event_type) \o EventForFacility
                                  \o Format(facility_id))>>,
              <<KeyData, PyDict(<< <<KeyFacilityId, facility_id>>,
                                   <<KeyEventType, event_type>>,
                                   <<KeyTimestamp, PyNone>> >>)>> >>)

\* response = {"status": "success", "message": f"Processed ...", "data": {...}}
Response(payload, event_type, facility_id) ==
    PyDict(<< <<KeyStatus, PyStr(Success)>>,
              <<KeyMessage, PyStr(Processed \o Format(event_type) \o EventForFacility
                                  \o Format(facility_id))>>,
              <<KeyData, PyDict(<< <<KeyFacilityId, facility_id>>,
                                   <<KeyEventType, event_type>>,
                                   <<KeyTimestamp, DictGet(payload, KeyTimestamp).value>> >>)>> >>)

\* A faulty dispatch, which treats an event without a handler as an error.
DispatchStrict(t) ==
    /\ pc[t] = "dispatch"
    /\ LET f        == frame[t]
           kwargs   == << <<KeyFacilityId, f.facility_id>> >>
           received == LoggerInfo(log, t, MsgReceived \o Format(f.event_type) \o MsgEvent, kwargs)
           handler  == HandlerMessage(f.event_type)
       IN  IF handler = <<>>
           THEN /\ Goto(t, "except")
                /\ log' = received.value
           ELSE /\ log' = LoggerInfo(received.value, t, handler, kwargs).value
                /\ Finish(t, Returned(Response(f.payload, f.event_type, f.facility_id)))
    /\ UNCHANGED <<environ, frame, prev, origin, vcall>>

\* logger.info(f"Received {event_type} event", ...); the branch on event_type;
\* return response
Dispatch(t) ==
    /\ pc[t] = "dispatch"
    /\ LET f        == frame[t]
           kwargs   == << <<KeyFacilityId, f.facility_id>> >>
           received == LoggerInfo(log, t, MsgReceived \o Format(f.event_type) \o MsgEvent, kwargs)
           handler  == HandlerMessage(f.event_type)
           handled  == IF received.raised \/ handler = <<>> THEN received
                       ELSE LoggerInfo(received.value, t, handler, kwargs)
       IN  IF received.raised
           THEN /\ Goto(t, "except")
                /\ UNCHANGED log
           ELSE IF handled.raised
           THEN /\ Goto(t, "except")
                /\ log' = received.value
           ELSE /\ log' = handled.value
                /\ Finish(t, Returned(Response(f.payload, f.event_type, f.facility_id)))
    /\ UNCHANGED <<environ, frame, prev, origin, vcall>>

\* except Exception as e: logger.error("Error processing webhook", exc_info=True); return None
Except(t) ==
    /\ pc[t] = "except"
    /\ log' = LoggerError(log, t, MsgError, TRUE).value
    /\ Finish(t, Returned(PyNone))
    /\ UNCHANGED <<environ, frame, prev, origin, vcall>>

\* One statement of thread t's call.
Step(t) ==
    \/ GetSignature(t)
    \/ GetSecret(t)
    \/ Serialize(t)
    \/ Validate(t)
    \/ Extract(t)
    \/ Dispatch(t)
    \/ Except(t)

(***************************************************************************)
(* The callers.  A test or any client calls the handler with a payload and *)
(* headers of its choice; the sender signs the raw body it sends, and the  *)
(* transport hands the handler the parsed body.                            *)
(***************************************************************************)
\* "deadbeef"
Garbage == <<100, 101, 97, 100, 98, 101, 101, 102>>

\* "é"
NonAscii == <<233>>

\* The sender's signature of a body: the hex HMAC-SHA256 under its secret.
Sign(secret, body) == hexdigest(Utf8Bytes(secret), body)

Header(signature) == PyDict(<< <<NotionSignature, PyStr(signature)>> >>)

NoHeaders == PyDict(<<>>)

\* A signature under "notion-signature", a key the handler does not read.
LowerHeader ==
    PyDict(<< <<(<<110, 111, 116, 105, 111, 110, 45, 115, 105, 103, 110, 97, 116, 117, 114, 101>>),
                PyStr(Sign(SecretA, DumpBytes(PayloadUpdated)))>> >>)

Signatures(payload) ==
    {<<>>, Garbage, NonAscii, Sign(SecretA, DumpBytes(PayloadUpdated))}
    \cup (IF payload \in Serialisable
          THEN {Sign(s, DumpBytes(payload)) : s \in SenderSecrets} ELSE {})

HeadersFor(payload) == {NoHeaders, LowerHeader} \cup {Header(s) : s \in Signatures(payload)}

Environs == {PyNone, PyStr(<<>>), PyStr(SecretA), PyStr(SecretB), PyStr(SecretSurrogate)}

\* The transport parses the body the sender signed and calls the handler.
Deliver(t, raw, secret) ==
    /\ pc[t] \in {"idle", "done"}
    /\ ~JsonLoads(raw).raised
    /\ frame' = [frame EXCEPT ![t] = Enter(JsonLoads(raw).value, Header(Sign(secret, raw)))]
    /\ pc' = [pc EXCEPT ![t] = "get_signature"]
    /\ outcome' = [outcome EXCEPT ![t] = NoOutcome]
    /\ prev' = [prev EXCEPT ![t] = NoOutcome]
    /\ origin' = [origin EXCEPT ![t] = [delivered |-> TRUE, raw |-> raw, secret |-> secret]]
    /\ log' = Scroll(log, t)
    /\ UNCHANGED <<environ, vcall>>

Idle ==
    /\ log = <<>>
    /\ pc = [t \in Threads |-> "idle"]
    /\ frame = [t \in Threads |-> Enter(PyNone, PyNone)]
    /\ outcome = [t \in Threads |-> NoOutcome]
    /\ prev = [t \in Threads |-> NoOutcome]
    /\ origin = [t \in Threads |-> NoOrigin]

(***************************************************************************)
(* Spec: one thread serves the requests, one after the other.              *)
(***************************************************************************)
Init ==
    /\ environ \in Environs
    /\ Idle
    /\ vcall = [called |-> FALSE]

Next ==
    \/ \E p \in Payloads : \E h \in HeadersFor(p) : Receive(1, p, h)
    \/ \E raw \in RawBodies : \E s \in SenderSecrets : Deliver(1, raw, s)
    \/ Repeat(1)
    \/ Step(1)

Spec == Init /\ [][Next]_vars

(***************************************************************************)
(* SpecThreads: two threads serve requests at the same time.               *)
(***************************************************************************)
ThreadRequests ==
    {<<PayloadUpdated, Header(Sign(SecretA, DumpBytes(PayloadUpdated)))>>,
     <<PayloadUpdated, Header(Garbage)>>,
     <<PayloadVerified, Header(Sign(SecretA, DumpBytes(PayloadVerified)))>>,
     <<PayloadDeleted, Header(Sign(SecretA, DumpBytes(PayloadDeleted)))>>,
     <<PayloadArchived, Header(Sign(SecretA, DumpBytes(PayloadArchived)))>>,
     <<PayloadList, Header(Sign(SecretA, DumpBytes(PayloadList)))>>,
     <<PayloadObject, NoHeaders>>}

InitThreads ==
    /\ environ \in {PyNone, PyStr(SecretA)}
    /\ Idle
    /\ vcall = [called |-> FALSE]

NextThreads ==
    \E t \in Threads :
        \/ \E r \in ThreadRequests : Receive(t, r[1], r[2])
        \/ Repeat(t)
        \/ Step(t)

SpecThreads == InitThreads /\ [][NextThreads]_vars

(***************************************************************************)
(* SpecValidate: validate_signature called directly.                       *)
(***************************************************************************)
DirectSignatures ==
    {<<>>, Garbage, NonAscii} \cup {Sign(s, p) : s \in DirectSecrets, p \in DirectPayloads}

InitValidate ==
    /\ environ = PyNone
    /\ Idle
    /\ \E p \in DirectPayloads, g \in DirectSignatures,
          s \in DirectSecrets \cup {<<>>, SecretSurrogate} :
          vcall = [called |-> TRUE, payload |-> p, signature |-> PyStr(g), secret |-> PyStr(s),
                   result |-> NoOutcome]

CallValidate ==
    /\ vcall.called
    /\ vcall.result = NoOutcome
    /\ vcall' = [vcall EXCEPT !.result = validate_signature(vcall.payload, vcall.signature,
                                                            vcall.secret)]
    /\ UNCHANGED <<environ, log, pc, frame, outcome, prev, origin>>

SpecValidate == InitValidate /\ [][CallValidate]_vars

(***************************************************************************)
(* What the properties below speak of.                                     *)
(***************************************************************************)
\* The records thread t's call in view has logged, in order.
Own(t) == SelectSeq(log, LAMBDA e : e.thread = t)

StartsWith(s, p) == Len(s) >= Len(p) /\ SubSeq(s, 1, Len(p)) = p

Contains(s, p) == \E i \in 0..(Len(s) - Len(p)) : SubSeq(s, i + 1, i + Len(p)) = p

\* The one record an error of the given kind leaves.
ErrorRecord(t, message) ==
    [levelname |-> "ERROR", message |-> message, exc_info |-> FALSE, thread |-> t]

\* 'Webhook signature validated | {"source": "notion"}'
ValidatedText == FormatLog(MsgValidated, << <<KeySource, PyStr(Notion)>> >>).value

\* The value of the Notion-Signature header of thread t's call.
HeaderValue(t) == DictGet(frame[t].headers, NotionSignature).value

\* Thread t's call has ended and returned a response.
Responded(t) == pc[t] = "done" /\ ~outcome[t].raised /\ outcome[t].value # PyNone

\* Thread t's call has ended and returned None.
Rejected(t) == pc[t] = "done" /\ outcome[t] = Returned(PyNone)

\* The arguments of thread t's call pass validate_signature, the payload
\* re-serialised as the handler re-serialises it.
SignatureValidates(t) ==
    /\ Truthy(HeaderValue(t))
    /\ Truthy(environ)
    /\ ~JsonDumps(frame[t].payload).raised
    /\ validate_signature(DumpBytes(frame[t].payload), HeaderValue(t), environ) = Returned(TRUE)

(***************************************************************************)
(* Properties of process_notion_webhook, checked under Spec.               *)
(***************************************************************************)
\* C1: a call returns a response only if the Notion-Signature header is
\* present and non-empty, NOTION_WEBHOOK_SECRET is set and non-empty, and
\* validate_signature returned true for the re-serialised payload, that
\* header value and that secret; no error was logged in a call that responds.
FailClosed ==
    \A t \in Threads :
        Responded(t) =>
            /\ HeaderValue(t).t = "str" /\ HeaderValue(t).s # <<>>
            /\ environ.t = "str" /\ environ.s # <<>>
            /\ SignatureValidates(t)
            /\ \A i \in 1..Len(Own(t)) : Own(t)[i].levelname # "ERROR"

\* A correctly signed facility.updated event has been answered.
FailClosedWitness ==
    /\ pc[1] = "done"
    /\ frame[1].payload = PayloadUpdated
    /\ outcome[1] = Returned(Response(PayloadUpdated, PyStr(FacilityUpdated), PyStr(Id42)))

\* C4: every call ends by returning a success envelope or None; no exception
\* leaves process_notion_webhook, whichever step raised it.
NoFaultEscapes ==
    \A t \in Threads : pc[t] = "done" => ~outcome[t].raised

\* json.dumps(payload) has raised TypeError and the call has ended with it.
FaultEscapesSerialization ==
    /\ pc[1] = "done"
    /\ frame[1].payload = PayloadObject
    /\ outcome[1] = Raised("TypeError")

\* C5: a call whose headers hold no Notion-Signature returns None and logs
\* the missing-signature error and nothing else, whatever the secret and
\* the payload are.
MissingSignatureRejected ==
    \A t \in Threads :
        (pc[t] # "idle" /\ HeaderValue(t) = PyNone) =>
            /\ pc[t] \in {"get_signature", "done"}
            /\ pc[t] = "done" =>
                  /\ outcome[t] = Returned(PyNone)
                  /\ Own(t) = <<ErrorRecord(t, MsgMissingSignature)>>

\* A call with the signature under a lower-case key, the secret configured
\* and a payload json.dumps cannot serialise, has ended.
MissingSignatureWitness ==
    /\ pc[1] = "done"
    /\ frame[1].headers = LowerHeader
    /\ frame[1].payload = PayloadObject
    /\ environ = PyStr(SecretA)
    /\ outcome[1] = Returned(PyNone)

\* The event types that have a handler.
KnownTypes == {PyStr(FacilityUpdated), PyStr(FacilityVerified), PyStr(FacilityDeleted)}

\* The record is the log statement of one of the three handlers.
IsHandlerEntry(e) ==
    \/ StartsWith(e.message, MsgUpdate)
    \/ StartsWith(e.message, MsgVerification)
    \/ StartsWith(e.message, MsgDeletion)

\* The payload of thread t's call is a mapping, as its annotation says.
IsMapping(t) == frame[t].payload.t = "dict"

\* C6: a call whose signature validates and whose payload, a mapping, has a
\* type other than facility.updated, facility.verified and facility.deleted,
\* or no type, returns an envelope with status "success" and runs no handler.
UnknownTypeSucceeds ==
    \A t \in Threads :
        (/\ pc[t] = "done"
         /\ IsMapping(t)
         /\ SignatureValidates(t)
         /\ DictGet(frame[t].payload, KeyType).value \notin KnownTypes) =>
            /\ Responded(t)
            /\ DictGet(outcome[t].value, KeyStatus).value = PyStr(Success)
            /\ \A i \in 1..Len(Own(t)) : ~IsHandlerEntry(Own(t)[i])

\* A correctly signed facility.archived event has been answered.
UnknownTypeWitness ==
    /\ pc[1] = "done"
    /\ frame[1].payload = PayloadArchived
    /\ SignatureValidates(1)
    /\ Responded(1)

\* C7: a call whose signature validates and whose payload is a mapping
\* returns the envelope with status "success", the message "Processed
\* <type> event for facility <facility_id>", and data holding exactly the
\* payload's facility_id, type and timestamp, None for a key it lacks.
EnvelopeFromPayload ==
    \A t \in Threads :
        (pc[t] = "done" /\ IsMapping(t) /\ SignatureValidates(t)) =>
            LET type        == DictGet(frame[t].payload, KeyType).value
                facility_id == DictGet(frame[t].payload, KeyFacilityId).value
                timestamp   == DictGet(frame[t].payload, KeyTimestamp).value
                message     == DictGet(outcome[t].value, KeyMessage).value
            IN  /\ Responded(t)
                /\ Contains(message.s, Format(type))
                /\ Contains(message.s, Format(facility_id))
                /\ outcome[t].value =
                       PyDict(<< <<KeyStatus, PyStr(Success)>>,
                                 <<KeyMessage, PyStr(Processed \o Format(type) \o EventForFacility
                                                     \o Format(facility_id))>>,
                                 <<KeyData, PyDict(<< <<KeyFacilityId, facility_id>>,
                                                      <<KeyEventType, type>>,
                                                      <<KeyTimestamp, timestamp>> >>)>> >>)

\* A correctly signed facility.verified event with timestamp 17 has been answered.
EnvelopeWitness ==
    /\ pc[1] = "done"
    /\ frame[1].payload = PayloadVerified
    /\ Responded(1)
    /\ DictGet(DictGet(outcome[1].value, KeyData).value, KeyTimestamp).value = PyInt(17)

\* C9: a request the sender signed with the secret the handler is configured
\* with, delivered as the parsed body and the sender's signature, is not
\* rejected, whatever the key order and the whitespace of the raw body.
SenderAccepted ==
    \A t \in Threads :
        (pc[t] = "done" /\ origin[t].delivered /\ environ = PyStr(origin[t].secret)) =>
            Responded(t)

\* The body without whitespace, signed with the configured secret, has been
\* rejected with the invalid-signature error.
SenderRejected ==
    /\ pc[1] = "done"
    /\ origin[1].delivered
    /\ origin[1].raw = RawCompact
    /\ environ = PyStr(origin[1].secret)
    /\ Rejected(1)
    /\ Own(1) = <<ErrorRecord(1, MsgInvalidSignature)>>

(***************************************************************************)
(* Properties of validate_signature, checked under SpecValidate.           *)
(***************************************************************************)
\* The direct call has returned or raised.
Called == vcall.called /\ vcall.result # NoOutcome

\* The secret has a UTF-8 encoding.
Encodable(secret) == ~Utf8Encode(secret).raised

\* The block keys HMAC derives from the secrets in view, computed once.
BlockKeys == {[secret |-> s, key |-> HmacKey(Utf8Bytes(s))] : s \in DirectSecrets \cup {<<>>}}

BlockKey(secret) == (CHOOSE r \in BlockKeys : r.secret = secret).key

\* C2: validate_signature returns true exactly when payload, signature and
\* secret are non-empty and the signature is the hex HMAC-SHA256 of the
\* payload under the UTF-8 encoding of the secret; it returns false when
\* any of the three is empty.
ValidateIff ==
    Called =>
        /\ (vcall.result = Returned(TRUE)) <=>
               /\ vcall.payload # <<>>
               /\ vcall.signature.s # <<>>
               /\ vcall.secret.s # <<>>
               /\ Encodable(vcall.secret.s)
               /\ vcall.signature.s = hexdigest(Utf8Bytes(vcall.secret.s), vcall.payload)
        /\ (vcall.payload = <<>> \/ vcall.signature.s = <<>> \/ vcall.secret.s = <<>>) =>
               vcall.result = Returned(FALSE)

\* A signature under a secret longer than a block of SHA-256 has been accepted.
ValidateWitness ==
    /\ Called
    /\ vcall.secret.s = SecretLong
    /\ vcall.payload # <<>>
    /\ vcall.result = Returned(TRUE)

\* C3, as stated: a signature of the payload under secret1 is never accepted
\* under a secret2 other than secret1 (validate_signature does not return
\* true; that it returns false is the stronger half of the statement).
OtherSecretRejected ==
    Called =>
        \A secret1 \in DirectSecrets :
            (secret1 # vcall.secret.s /\ vcall.signature.s = Sign(secret1, vcall.payload)) =>
                vcall.result # Returned(TRUE)

\* C3, amended: a signature of the payload under secret1 makes
\* validate_signature return false under every secret2 whose HMAC block key
\* differs from that of secret1, and never return true under a secret2 that
\* has no UTF-8 encoding.
OtherKeyRejected ==
    Called =>
        \A secret1 \in DirectSecrets :
            vcall.signature.s = Sign(secret1, vcall.payload) =>
                /\ (Encodable(vcall.secret.s) /\ BlockKey(secret1) # BlockKey(vcall.secret.s)) =>
                       vcall.result = Returned(FALSE)
                /\ ~Encodable(vcall.secret.s) => vcall.result # Returned(TRUE)

\* A signature of a non-empty payload under "s3cret" has been refused under "other".
OtherKeyWitness ==
    /\ Called
    /\ vcall.payload # <<>>
    /\ vcall.signature.s = Sign(SecretA, vcall.payload)
    /\ vcall.secret.s = SecretB
    /\ vcall.result = Returned(FALSE)

(***************************************************************************)
(* Properties of calls that interleave, checked under SpecThreads.         *)
(***************************************************************************)
\* A call repeated with the payload and headers of the call before it ends
\* as that call ended.
RepeatedAlike ==
    \A t \in Threads : (pc[t] = "done" /\ prev[t] # NoOutcome) => outcome[t] = prev[t]

\* Two threads called with the same payload and headers end alike.
ThreadsAlike ==
    \A t, u \in Threads :
        (/\ pc[t] = "done" /\ pc[u] = "done"
         /\ frame[t].payload = frame[u].payload
         /\ frame[t].headers = frame[u].headers) => outcome[t] = outcome[u]

\* C8: two calls with identical payload and headers end with identical
\* outcomes, one after the other or interleaved with the calls of another
\* thread, and no step of a call changes the one state a call reads, the
\* environment.
Stateless == [](RepeatedAlike /\ ThreadsAlike) /\ [][environ' = environ]_vars

\* A call has been answered a second time while the other thread, called
\* with the same payload and headers, has been answered as well.
StatelessWitness ==
    /\ pc[1] = "done" /\ pc[2] = "done"
    /\ prev[1] # NoOutcome
    /\ Responded(1)
    /\ frame[2].payload = frame[1].payload
    /\ frame[2].headers = frame[1].headers
    /\ \E i \in 1..Len(log) : log[i].thread = 2 /\ i < Len(log)

\* The position of the first record of thread t's call that says the
\* signature was validated; 0 when there is none.
ValidatedAt(t) ==
    LET at == {i \in 1..Len(Own(t)) : Own(t)[i].message = ValidatedText}
    IN  IF at = {} THEN 0 ELSE CHOOSE i \in at : \A j \in at : i <= j

\* The positions of the handler records of thread t's call.
HandlerAt(t) == {i \in 1..Len(Own(t)) : IsHandlerEntry(Own(t)[i])}

\* Thread t's call has logged one of the three rejections.
LoggedRejection(t) ==
    \E i \in 1..Len(Own(t)) :
        Own(t)[i].message \in {MsgMissingSignature, MsgSecretNotConfigured, MsgInvalidSignature}

\* C10: within one call, a handler record comes only after the record that
\* the signature was validated, there is at most one handler record, it is
\* the one of the payload's type, and a call rejected for a missing header,
\* a missing secret or a bad signature has neither a handler record nor a
\* validated record.
HandlerAfterValidation ==
    \A t \in Threads :
        pc[t] # "idle" =>
            LET type == DictGet(frame[t].payload, KeyType)
            IN  /\ \A i \in HandlerAt(t) : ValidatedAt(t) # 0 /\ ValidatedAt(t) < i
                /\ Cardinality(HandlerAt(t)) <= 1
                /\ \A i \in HandlerAt(t) :
                       /\ ~type.raised
                       /\ StartsWith(Own(t)[i].message, MsgUpdate) =>
                              type.value = PyStr(FacilityUpdated)
                       /\ StartsWith(Own(t)[i].message, MsgVerification) =>
                              type.value = PyStr(FacilityVerified)
                       /\ StartsWith(Own(t)[i].message, MsgDeletion) =>
                              type.value = PyStr(FacilityDeleted)
                /\ LoggedRejection(t) => (HandlerAt(t) = {} /\ ValidatedAt(t) = 0)

\* A facility.deleted event has been handled by one thread while the other
\* thread's call was rejected for its signature.
HandlerWitness ==
    \E t, u \in Threads :
        /\ pc[t] = "done" /\ pc[u] = "done"
        /\ frame[t].payload = PayloadDeleted
        /\ HandlerAt(t) # {}
        /\ LoggedRejection(u)
        /\ \E i \in 1..Len(log) : log[i].thread = u /\ i > 1 /\ i < Len(log)
====
